---- MODULE Spec2Model ----
(***************************************************************************)
(* Model of the file sharing server (src/server.js, src/models/File.js).   *)
(* The store is the "files" collection; every request handler is a process *)
(* that runs between its awaits. A step is one store call together with    *)
(* the code that runs on its result up to the next store call: bcrypt.hash *)
(* and bcrypt.compare are awaited too, but read only the handler's own     *)
(* data. Handlers interleave between steps.                                *)
(***************************************************************************)
EXTENDS Integers, Sequences, FiniteSets, TLC

\* ---------------------------------------------------------------- bounds
MaxFiles == 2
MaxDirect == 1
MaxInFlight == 2

\* ------------------------------------------------------------- constants
MAX_DOWNLOADS == 3

\* req.body.password / file.password when the field is missing (JS undefined)
Undefined == "undefined"

\* 24-hex strings, the format mongoose.Types.ObjectId.isValid accepts;
\* the n-th document inserted gets the n-th of them as _id
IdStrs == <<"i1", "i2", "i3", "i4", "i5", "i6">>
OidStrings == {IdStrs[k] : k \in 1..Len(IdStrs)}

\* strings generateAccessCode can draw (8 characters of [A-Z0-9])
Codes == {"A", "B"}

\* passwords a client can put in the body
Passwords == {"", "secret", "wrong"}

\* request handlers that can be in flight together
Slots == 1..MaxInFlight

VARIABLES files, req, served, nDirect, proc

vars == <<files, req, served, nDirect, proc>>

\* ---------------------------------------------------------- pure helpers
isValid(value) == value \in OidStrings

\* bcrypt.hash(password, 10): a salted digest, never the password itself
bcryptHash(password) == "$2b$10$" \o password

\* bcrypt.compare(data, hash): rejects when either argument is missing,
\* otherwise tells whether hash was made from data
bcryptCompare(data, hash) ==
    IF data = Undefined \/ hash = Undefined THEN "throw"
    ELSE IF bcryptHash(data) = hash THEN "match" ELSE "mismatch"

\* JS truthiness of a string-or-undefined field
truthy(x) == x # Undefined /\ x # ""

\* File.findById(value): <<doc>> or <<>> (null)
findById(value) ==
    IF \E k \in 1..Len(files) : files[k].id = value
    THEN <<files[CHOOSE k \in 1..Len(files) : files[k].id = value]>>
    ELSE <<>>

\* File.findOne({accessCode: value}): first matching document or null
findOneByAccessCode(value) ==
    IF \E k \in 1..Len(files) : files[k].accessCode = value
    THEN <<files[CHOOSE k \in 1..Len(files) :
                    /\ files[k].accessCode = value
                    /\ \A j \in 1..(k-1) : files[j].accessCode # value]>>
    ELSE <<>>

\* position of the document with this _id
IndexOf(id) == CHOOSE k \in 1..Len(files) : files[k].id = id

\* a handler: where it stands (pc), what the request carried (route, value,
\* password, hasFile), its locals (file, code), the number of store writes
\* it has made and, once it has answered (pc = "done"), the response
Idle == [pc |-> "idle", route |-> "none", value |-> Undefined,
         password |-> Undefined, file |-> <<>>, hasFile |-> FALSE,
         code |-> Undefined, writes |-> 0, outcome |-> "none",
         error |-> FALSE]

\* the handler after res.render / res.send / res.download
Responded(r, outcome, error) ==
    [r EXCEPT !.pc = "done", !.outcome = outcome, !.error = error]

\* a request is taken by the first handler that is not busy
Free(s) ==
    /\ req[s].pc = "idle"
    /\ \A t \in Slots : t < s => req[t].pc # "idle"

Init ==
    /\ files = <<>>
    /\ req = [s \in Slots |-> Idle]
    /\ served = [i \in OidStrings |-> 0]
    /\ nDirect = 0
    /\ proc = "starting"

\* ------------------------------------------------- POST /upload (85-121)
\* documents already stored plus uploads that may still store one
PendingFiles ==
    Len(files) + Cardinality({t \in Slots : req[t].pc \in {"gen", "create"}})

\* request arrives; without a file the handler answers 400 at once,
\* otherwise it enters generateAccessCode
BeginUpload(s, hasFile, password) ==
    /\ Free(s)
    /\ hasFile => PendingFiles < MaxFiles
    /\ req' = [req EXCEPT ![s] =
                 IF hasFile
                 THEN [Idle EXCEPT !.pc = "gen", !.route = "upload",
                                   !.password = password, !.hasFile = TRUE]
                 ELSE Responded([Idle EXCEPT !.route = "upload",
                                   !.password = password], "NO_FILE", FALSE)]
    /\ UNCHANGED <<files, served, nDirect>>

\* the candidate returned without the lookup
generateAccessCode_NoLookup(s) ==
    /\ req[s].pc = "gen"
    /\ \E code \in Codes :
          req' = [req EXCEPT ![s].code = code, ![s].pc = "create"]
    /\ UNCHANGED <<files, served, nDirect>>

\* one turn of the while loop: draw a candidate, look it up, loop if taken
generateAccessCode(s) ==
    /\ req[s].pc = "gen"
    /\ \E code \in Codes :
          LET exists == findOneByAccessCode(code) # <<>>
          IN req' = [req EXCEPT ![s].code = code,
                                ![s].pc = IF exists THEN "gen" ELSE "create"]
    /\ UNCHANGED <<files, served, nDirect>>

\* the password hashed whenever the field is present, empty or not
NewFile_HashAnyPassword(r) ==
    [id |-> IdStrs[Len(files) + 1],
     path |-> "uploads/" \o IdStrs[Len(files) + 1],
     originalName |-> "name",
     password |-> IF r.password # Undefined
                  THEN bcryptHash(r.password) ELSE Undefined,
     accessCode |-> r.code,
     downloadCount |-> 0]

\* the document File.create builds: schema default downloadCount 0,
\* password only for a truthy req.body.password
NewFile(r) ==
    [id |-> IdStrs[Len(files) + 1],
     path |-> "uploads/" \o IdStrs[Len(files) + 1],
     originalName |-> "name",
     password |-> IF truthy(r.password)
                  THEN bcryptHash(r.password) ELSE Undefined,
     accessCode |-> r.code,
     downloadCount |-> 0]

\* File.create with no unique index on accessCode
UploadCreate_NoUniqueIndex(s) ==
    /\ req[s].pc = "create"
    /\ files' = Append(files, NewFile(req[s]))
    /\ req' = [req EXCEPT ![s] =
                 Responded([@ EXCEPT !.file = <<NewFile(req[s])>>,
                                     !.writes = @ + 1],
                           "UPLOADED", FALSE)]
    /\ UNCHANGED <<served, nDirect>>

\* File.create under the unique index on accessCode: a duplicate key makes
\* it throw and the catch block answers 500; otherwise the document is
\* stored and the page with link, QR code and access code is rendered
UploadCreate(s) ==
    /\ req[s].pc = "create"
    /\ IF \E k \in 1..Len(files) : files[k].accessCode = req[s].code
       THEN /\ req' = [req EXCEPT ![s] = Responded(@, "SERVER_ERROR", FALSE)]
            /\ UNCHANGED files
       ELSE /\ files' = Append(files, NewFile(req[s]))
            /\ req' = [req EXCEPT ![s] =
                         Responded([@ EXCEPT !.file = <<NewFile(req[s])>>,
                                             !.writes = @ + 1],
                                   "UPLOADED", FALSE)]
    /\ UNCHANGED <<served, nDirect>>

\* ------------------------------------------- POST /download (131-148)
BeginPostDownload(s, accessCode) ==
    /\ Free(s)
    /\ nDirect < MaxDirect
    /\ nDirect' = nDirect + 1
    /\ req' = [req EXCEPT ![s] = [Idle EXCEPT !.pc = "dlFind",
                   !.route = "postDownload", !.value = accessCode]]
    /\ UNCHANGED <<files, served>>

\* findOne by access code; no document: "Invalid access code", otherwise
\* the file is sent
DownloadFindOne(s) ==
    /\ req[s].pc = "dlFind"
    /\ LET file == findOneByAccessCode(req[s].value)
       IN IF file = <<>>
          THEN /\ req' = [req EXCEPT ![s] = Responded(@, "NOT_FOUND", FALSE)]
               /\ UNCHANGED served
          ELSE /\ served' = [served EXCEPT ![file[1].id] = @ + 1]
               /\ req' = [req EXCEPT ![s] =
                            Responded([@ EXCEPT !.file = file],
                                      "GRANTED", FALSE)]
    /\ UNCHANGED <<files, nDirect>>

\* -------------------------- steps both /file/:value routes are written with
BeginFile(s, route, value, password) ==
    /\ Free(s)
    /\ req' = [req EXCEPT ![s] = [Idle EXCEPT
                   !.pc = IF isValid(value) THEN "findById" ELSE "findOne",
                   !.route = route, !.value = value, !.password = password]]
    /\ UNCHANGED <<files, served, nDirect>>

\* File.updateOne({_id}, {$inc: {downloadCount: 1}}), with no condition on
\* the count, followed by res.download(file.path, file.originalName)
UpdateOneAndDownload(s, route) ==
    /\ req[s].route = route
    /\ req[s].pc = "inc"
    /\ files' = [files EXCEPT
                   ![IndexOf(req[s].file[1].id)].downloadCount = @ + 1]
    /\ served' = [served EXCEPT ![req[s].file[1].id] = @ + 1]
    /\ req' = [req EXCEPT ![s] =
                 Responded([@ EXCEPT !.writes = @ + 1], "GRANTED", FALSE)]
    /\ UNCHANGED nDirect

\* --------------------------------------------- GET /file/:value (200-245)
BeginGetFile(s, value) == BeginFile(s, "getFile", value, Undefined)

\* lines 209-231 run on the document the lookup returned: 404, the limit
\* test, the password page; otherwise the handler goes on to updateOne
GetDecide(r, file) ==
    IF file = <<>>
    THEN Responded(r, "NOT_FOUND", FALSE)
    ELSE IF file[1].downloadCount >= MAX_DOWNLOADS
    THEN Responded([r EXCEPT !.file = file], "QUOTA_EXCEEDED", FALSE)
    ELSE IF truthy(file[1].password)
    THEN Responded([r EXCEPT !.file = file], "NEEDS_PASSWORD", FALSE)
    ELSE [r EXCEPT !.file = file, !.pc = "inc"]

\* the access code tried before the id
GetFindById_CodeFirst(s) ==
    /\ req[s].route = "getFile"
    /\ req[s].pc = "findById"
    /\ LET byCode == findOneByAccessCode(req[s].value)
           file == IF byCode # <<>> THEN byCode ELSE findById(req[s].value)
       IN req' = [req EXCEPT ![s] = IF file = <<>>
                                    THEN [@ EXCEPT !.pc = "findOne"]
                                    ELSE GetDecide(@, file)]
    /\ UNCHANGED <<files, served, nDirect>>

GetFindById(s) ==
    /\ req[s].route = "getFile"
    /\ req[s].pc = "findById"
    /\ LET file == findById(req[s].value)
       IN req' = [req EXCEPT ![s] = IF file = <<>>
                                    THEN [@ EXCEPT !.pc = "findOne"]
                                    ELSE GetDecide(@, file)]
    /\ UNCHANGED <<files, served, nDirect>>

\* a lookup that inserts the document it did not find (upsert)
GetFindOne_Upsert(s) ==
    /\ req[s].route = "getFile"
    /\ req[s].pc = "findOne"
    /\ LET file == findOneByAccessCode(req[s].value)
       IN /\ files' = IF file = <<>>
                      THEN Append(files, [NewFile(req[s]) EXCEPT
                                            !.accessCode = req[s].value])
                      ELSE files
          /\ req' = [req EXCEPT ![s] = GetDecide(@, file)]
    /\ UNCHANGED <<served, nDirect>>

GetFindOne(s) ==
    /\ req[s].route = "getFile"
    /\ req[s].pc = "findOne"
    /\ req' = [req EXCEPT ![s] =
                 GetDecide(@, findOneByAccessCode(req[s].value))]
    /\ UNCHANGED <<files, served, nDirect>>

GetIncrement(s) == UpdateOneAndDownload(s, "getFile")

\* -------------------------------------------- POST /file/:value (249-297)
BeginPostFile(s, value, password) == BeginFile(s, "postFile", value, password)

\* the password compared before the limit is tested
PostDecide_CompareFirst(r, file) ==
    IF file = <<>>
    THEN Responded(r, "NOT_FOUND", FALSE)
    ELSE IF bcryptCompare(r.password, file[1].password) = "throw"
    THEN Responded([r EXCEPT !.file = file], "SERVER_ERROR", FALSE)
    ELSE IF bcryptCompare(r.password, file[1].password) = "mismatch"
    THEN Responded([r EXCEPT !.file = file], "PASSWORD_REJECTED", TRUE)
    ELSE IF file[1].downloadCount >= MAX_DOWNLOADS
    THEN Responded([r EXCEPT !.file = file], "QUOTA_EXCEEDED", FALSE)
    ELSE [r EXCEPT !.file = file, !.pc = "inc"]

\* lines 259-283 run on the document the lookup returned: 404, the limit
\* test, then bcrypt.compare(password, file.password): a throw lands in the
\* catch block (500), a mismatch renders the password page with error: true,
\* a match lets the handler go on to updateOne
PostDecide(r, file) ==
    IF file = <<>>
    THEN Responded(r, "NOT_FOUND", FALSE)
    ELSE IF file[1].downloadCount >= MAX_DOWNLOADS
    THEN Responded([r EXCEPT !.file = file], "QUOTA_EXCEEDED", FALSE)
    ELSE IF bcryptCompare(r.password, file[1].password) = "throw"
    THEN Responded([r EXCEPT !.file = file], "SERVER_ERROR", FALSE)
    ELSE IF bcryptCompare(r.password, file[1].password) = "mismatch"
    THEN Responded([r EXCEPT !.file = file], "PASSWORD_REJECTED", TRUE)
    ELSE [r EXCEPT !.file = file, !.pc = "inc"]

\* the slot taken at lookup time, before the password is compared
PostFindById_IncrementFirst(s) ==
    /\ req[s].route = "postFile"
    /\ req[s].pc = "findById"
    /\ LET file == findById(req[s].value)
       IN /\ files' = IF file = <<>> THEN files
                      ELSE [files EXCEPT
                              ![IndexOf(file[1].id)].downloadCount = @ + 1]
          /\ req' = [req EXCEPT ![s] =
                       IF file = <<>>
                       THEN [@ EXCEPT !.pc = "findOne"]
                       ELSE PostDecide([@ EXCEPT !.writes = @ + 1], file)]
    /\ UNCHANGED <<served, nDirect>>

PostFindById(s) ==
    /\ req[s].route = "postFile"
    /\ req[s].pc = "findById"
    /\ LET file == findById(req[s].value)
       IN req' = [req EXCEPT ![s] = IF file = <<>>
                                    THEN [@ EXCEPT !.pc = "findOne"]
                                    ELSE PostDecide(@, file)]
    /\ UNCHANGED <<files, served, nDirect>>

\* the slot taken at lookup time, before the password is compared
PostFindOne_IncrementFirst(s) ==
    /\ req[s].route = "postFile"
    /\ req[s].pc = "findOne"
    /\ LET file == findOneByAccessCode(req[s].value)
       IN /\ files' = IF file = <<>> THEN files
                      ELSE [files EXCEPT
                              ![IndexOf(file[1].id)].downloadCount = @ + 1]
          /\ req' = [req EXCEPT ![s] =
                       PostDecide([@ EXCEPT !.writes =
                                      IF file = <<>> THEN @ ELSE @ + 1],
                                  file)]
    /\ UNCHANGED <<served, nDirect>>

PostFindOne(s) ==
    /\ req[s].route = "postFile"
    /\ req[s].pc = "findOne"
    /\ req' = [req EXCEPT ![s] =
                 PostDecide(@, findOneByAccessCode(req[s].value))]
    /\ UNCHANGED <<files, served, nDirect>>

PostIncrement(s) == UpdateOneAndDownload(s, "postFile")

\* ------------------------------------------------------- specification
\* identities a client can put in the URL
Values == Codes \cup {IdStrs[k] : k \in 1..MaxFiles}

\* ------------------------------------------ process start (17-26, 313-319)
\* the "open" event of the connection: app.listen(PORT)
ConnectionOpen ==
    /\ proc = "starting"
    /\ proc' = "listening"
    /\ UNCHANGED <<files, req, served, nDirect>>

\* mongoose.connect rejects: process.exit(1)
ConnectFailed ==
    /\ proc = "starting"
    /\ proc' = "exited"
    /\ UNCHANGED <<files, req, served, nDirect>>

\* app.listen called without waiting for the "open" event
Accepting_BeforeOpen == proc # "exited"

\* requests reach the handlers once app.listen has run
Accepting == proc = "listening"

Arrive ==
    /\ Accepting
    /\ UNCHANGED proc
    /\ \E s \in Slots :
       \/ \E hasFile \in BOOLEAN, password \in {Undefined, "", "secret"} :
             BeginUpload(s, hasFile, password)
       \/ \E accessCode \in Codes : BeginPostDownload(s, accessCode)
       \/ \E value \in Values : BeginGetFile(s, value)
       \/ \E value \in Values, password \in Passwords \cup {Undefined} :
             BeginPostFile(s, value, password)

Step ==
    /\ UNCHANGED proc
    /\ \E s \in Slots :
       \/ generateAccessCode(s)
       \/ UploadCreate(s)
       \/ DownloadFindOne(s)
       \/ GetFindById(s)
       \/ GetFindOne(s)
       \/ GetIncrement(s)
       \/ PostFindById(s)
       \/ PostFindOne(s)
       \/ PostIncrement(s)

\* the handler returns in the same turn of the event loop in which it
\* answers: nothing else runs between the answer and the return
Return ==
    /\ \E s \in Slots :
          /\ req[s].pc = "done"
          /\ req' = [req EXCEPT ![s] = Idle]
    /\ UNCHANGED <<files, served, nDirect, proc>>

Quiet == \A s \in Slots : req[s].pc # "done"

Next ==
    \/ ConnectionOpen
    \/ ConnectFailed
    \/ Return
    \/ Quiet /\ Arrive
    \/ Quiet /\ Step

Spec == Init /\ [][Next]_vars

TypeOK ==
    /\ proc \in {"starting", "listening", "exited"}
    /\ Len(files) <= MaxFiles
    /\ \A s \in Slots : req[s].pc \in {"idle", "done", "gen", "create",
          "dlFind", "findById", "findOne", "inc"}

\* one request at a time: a request arrives only when no handler is busy
Alone == \A s \in Slots : req[s].pc = "idle"

NextSeq ==
    \/ ConnectionOpen
    \/ ConnectFailed
    \/ Return
    \/ Quiet /\ Alone /\ Arrive
    \/ Quiet /\ Step

SpecSeq == Init /\ [][NextSeq]_vars

\* The store outlives the process and the schema takes any string as
\* accessCode: the process may start on a collection that already holds a
\* document whose accessCode has the format of an id.
SeedFile ==
    [id |-> IdStrs[1], path |-> "uploads/" \o IdStrs[1],
     originalName |-> "name", password |-> Undefined,
     accessCode |-> IdStrs[2], downloadCount |-> 0]

InitSeeded ==
    /\ files = <<SeedFile>>
    /\ req = [s \in Slots |-> Idle]
    /\ served = [i \in OidStrings |-> 0]
    /\ nDirect = 0
    /\ proc = "starting"

SpecSeeded == InitSeeded /\ [][Next]_vars

\* ------------------------------------------------------------ properties
FileRoutes == {"getFile", "postFile"}

Done(s) == req[s].pc = "done"

\* handler s answers in this step
Answers(s) == req[s].pc # "done" /\ req'[s].pc = "done"

\* C1: downloadCount of every record never exceeds MAX_DOWNLOADS
C1_CountWithinLimit ==
    \A k \in 1..Len(files) : files[k].downloadCount <= MAX_DOWNLOADS

\* C2: of the grant-eligible requests racing for a record only as many are
\* granted as slots remain: a /file request is granted only while the
\* stored downloadCount is still below MAX_DOWNLOADS
C2_GrantOnlyRemainingSlot ==
    [][\A s \in Slots :
          (Answers(s) /\ req[s].route \in FileRoutes
              /\ req'[s].outcome = "GRANTED")
          => files[IndexOf(req[s].file[1].id)].downloadCount < MAX_DOWNLOADS]_vars

\* C3: the file of a record is served at most MAX_DOWNLOADS times, all
\* routes together
C3_ServedWithinLimit ==
    \A k \in 1..Len(files) : served[files[k].id] <= MAX_DOWNLOADS

\* C4: a record with a password hash is served only to a request whose
\* password matches the hash
C4_PasswordGate ==
    \A s \in Slots :
       (Done(s) /\ req[s].outcome = "GRANTED"
           /\ truthy(req[s].file[1].password))
       => bcryptCompare(req[s].password, req[s].file[1].password) = "match"

\* C5: a request answered PASSWORD_REJECTED has written nothing to the store
\* and its answering step leaves every record as it was
C5_WrongPasswordFrame ==
    [][\A s \in Slots :
          (Answers(s) /\ req'[s].outcome = "PASSWORD_REJECTED")
          => (files' = files /\ req'[s].writes = 0)]_vars

C5_Witness ==
    \E s \in Slots :
       /\ Done(s)
       /\ req[s].outcome = "PASSWORD_REJECTED"
       /\ files[IndexOf(req[s].file[1].id)].downloadCount > 0
       /\ \E t \in Slots : req[t].pc = "inc"

\* C6: no two records in the store have the same accessCode
C6_UniqueAccessCode ==
    \A j, k \in 1..Len(files) :
       j # k => files[j].accessCode # files[k].accessCode

\* two uploads drew the same code and one of them has stored its record
C6_Witness ==
    \E s \in Slots :
       /\ req[s].pc = "create"
       /\ \E k \in 1..Len(files) : files[k].accessCode = req[s].code

\* C7: an upload that carries a file is never answered with an error: a
\* duplicate access code is recovered from, not surfaced
C7_DuplicateRecovered ==
    \A s \in Slots :
       (Done(s) /\ req[s].route = "upload" /\ req[s].hasFile)
       => req[s].outcome = "UPLOADED"

\* C8: downloadCount of a record equals the number of times its file was
\* served
C8_CountEqualsGrants ==
    \A k \in 1..Len(files) : files[k].downloadCount = served[files[k].id]

\* C9: one request at a time against a record with a password: while slots
\* remain no password gives NEEDS_PASSWORD, a wrong one PASSWORD_REJECTED,
\* the right one GRANTED; with MAX_DOWNLOADS grants made, QUOTA_EXCEEDED
C9_RoundTrip ==
    \A s \in Slots :
       (Done(s) /\ req[s].route \in FileRoutes /\ req[s].file # <<>>
           /\ truthy(req[s].file[1].password))
       => req[s].outcome =
            IF req[s].file[1].downloadCount >= MAX_DOWNLOADS
            THEN "QUOTA_EXCEEDED"
            ELSE IF req[s].password = Undefined THEN "NEEDS_PASSWORD"
            ELSE IF bcryptHash(req[s].password) = req[s].file[1].password
            THEN "GRANTED"
            ELSE "PASSWORD_REJECTED"

\* C10: a value in id format is looked up as an id first; it resolves to
\* the record with that id whenever there is one, whatever record has it
\* as accessCode, and goes on to the access code only when there is none
C10_IdFirst ==
    [][\A s \in Slots :
          /\ (req[s].pc = "idle" /\ req'[s].route \in FileRoutes
                 /\ isValid(req'[s].value))
             => req'[s].pc = "findById"
          /\ (req[s].pc = "findById" /\ req'[s] # req[s])
             => IF findById(req[s].value) # <<>>
                THEN req'[s].file = findById(req[s].value)
                ELSE req'[s].pc = "findOne" /\ req'[s].file = <<>>]_vars

\* a request resolved to the record whose id is the value while another
\* record has the value as accessCode
C10_Witness ==
    \E s \in Slots :
       /\ req[s].route \in FileRoutes
       /\ req[s].file # <<>>
       /\ req[s].file[1].id = req[s].value
       /\ \E k \in 1..Len(files) :
             files[k].accessCode = req[s].value /\ files[k].id # req[s].value

\* ------------------------------------------------- store failures
\* the store call a handler awaits rejects without effect; the catch block
\* of the handler answers 500
StoreFault(s) ==
    /\ req[s].pc \in {"gen", "create", "dlFind", "findById", "findOne", "inc"}
    /\ req' = [req EXCEPT ![s] = Responded(@, "SERVER_ERROR", FALSE)]
    /\ UNCHANGED <<files, served, nDirect, proc>>

NextFaulty ==
    \/ Next
    \/ Quiet /\ \E s \in Slots : StoreFault(s)

SpecFaulty == Init /\ [][NextFaulty]_vars

\* ------------------------------------------------- uploads, fair draws
ArriveUpload ==
    /\ Accepting
    /\ UNCHANGED proc
    /\ \E s \in Slots, hasFile \in BOOLEAN,
          password \in {Undefined, "", "secret"} :
             BeginUpload(s, hasFile, password)

StepUpload ==
    /\ UNCHANGED proc
    /\ \E s \in Slots :
          \/ generateAccessCode(s)
          \/ UploadCreate(s)

NextUpload ==
    \/ ConnectionOpen
    \/ ConnectFailed
    \/ Return
    \/ Quiet /\ ArriveUpload
    \/ Quiet /\ StepUpload

\* the turn of the loop of handler s that draws a code no record has
DrawsFree(s) ==
    /\ Quiet
    /\ UNCHANGED proc
    /\ generateAccessCode(s)
    /\ req'[s].pc = "create"

\* Math.random is fair: a draw that can come up for ever does come up; a
\* handler that has answered returns
SpecUploadFair ==
    /\ Init
    /\ [][NextUpload]_vars
    /\ WF_vars(Return)
    /\ \A s \in Slots : SF_vars(DrawsFree(s))

\* C11: a request answered NOT_FOUND has written nothing to the store and
\* its answering step leaves the set of records and every field as it was
C11_NotFoundFrame ==
    [][\A s \in Slots :
          (Answers(s) /\ req'[s].outcome = "NOT_FOUND")
          => (files' = files /\ req'[s].writes = 0)]_vars

\* NOT_FOUND answered while the store holds a record
C11_Witness ==
    \E s \in Slots :
       /\ Done(s)
       /\ req[s].outcome = "NOT_FOUND"
       /\ req[s].route \in FileRoutes \cup {"postDownload"}
       /\ Len(files) > 0

\* C12: a /file request that found a record without password hash and with
\* a slot left is answered GRANTED, on GET and on POST, whatever the body
C12_NoPasswordGranted ==
    \A s \in Slots :
       (Done(s) /\ req[s].route \in FileRoutes /\ req[s].file # <<>>
           /\ ~truthy(req[s].file[1].password)
           /\ req[s].file[1].downloadCount < MAX_DOWNLOADS)
       => req[s].outcome = "GRANTED"

\* C13: a /file request without password field that found a record with a
\* password hash and a slot left is answered NEEDS_PASSWORD with
\* error = false and has written nothing
C13_AbsentPasswordPrompt ==
    \A s \in Slots :
       (Done(s) /\ req[s].route \in FileRoutes /\ req[s].file # <<>>
           /\ truthy(req[s].file[1].password)
           /\ req[s].file[1].downloadCount < MAX_DOWNLOADS
           /\ req[s].password = Undefined)
       => (req[s].outcome = "NEEDS_PASSWORD" /\ ~req[s].error
              /\ req[s].writes = 0)

C15_ServeOnlyAfterOpen ==
    /\ [](proc # "listening"
            => /\ \A s \in Slots : req[s] = Idle
               /\ \A i \in OidStrings : served[i] = 0
               /\ files = <<>>)
    /\ [][proc = "exited" => proc' = "exited"]_vars

\* the connection attempt failed and the process has exited
C15_Witness == proc = "exited"

RetrievalRoutes == FileRoutes \cup {"postDownload"}

\* C16: a retrieval request answered with the server error, after a store
\* call or bcrypt.compare failed, has written nothing to the store and its
\* answering step leaves every record as it was
C16_ServerErrorFrame ==
    [][\A s \in Slots :
          (Answers(s) /\ req[s].route \in RetrievalRoutes
              /\ req'[s].outcome = "SERVER_ERROR")
          => (files' = files /\ req'[s].writes = 0)]_vars

\* the updateOne of a GET request failed
C16_Witness ==
    \E s \in Slots :
       /\ Done(s)
       /\ req[s].route = "getFile"
       /\ req[s].outcome = "SERVER_ERROR"
       /\ req[s].file # <<>>

UsedCodes == {files[k].accessCode : k \in 1..Len(files)}

\* C17: generateAccessCode returns a candidate only from a lookup that found
\* no record with it, loops on the others, and a handler in the loop leaves
\* it unless every code is taken
C17_GeneratesFreeCode ==
    /\ [][\A s \in Slots :
             (req[s].pc = "gen" /\ req'[s] # req[s])
             => IF req'[s].code \in UsedCodes
                THEN req'[s].pc \in {"gen", "done"}
                ELSE req'[s].pc \in {"create", "done"}]_vars
    /\ \A s \in Slots :
          (req[s].pc = "gen") ~> (req[s].pc # "gen" \/ Codes \subseteq UsedCodes)

\* a candidate was returned while the store already held a record
C17_Witness ==
    \E s \in Slots :
       /\ req[s].pc = "create"
       /\ Len(files) > 0
       /\ req[s].code \notin UsedCodes

\* C18: an upload answered with the result page has added exactly one
\* record, with downloadCount 0 and a password hash exactly when the
\* password submitted was not empty; records are added by such uploads
\* only, an upload without file adds none, and no record is ever removed
C18_UploadCreatesOne ==
    [][/\ \A s \in Slots :
            (Answers(s) /\ req'[s].outcome = "UPLOADED")
            => /\ Len(files') = Len(files) + 1
               /\ files'[Len(files')].downloadCount = 0
               /\ (files'[Len(files')].password # Undefined)
                     <=> (req[s].password \notin {Undefined, ""})
       /\ \A s \in Slots :
            (Answers(s) /\ req'[s].outcome = "NO_FILE") => files' = files
       /\ Len(files') > Len(files)
            => \E s \in Slots : Answers(s) /\ req'[s].outcome = "UPLOADED"
       /\ Len(files') >= Len(files)
       /\ \A k \in 1..Len(files) : files'[k].id = files[k].id]_vars

\* an upload with an empty password has stored a record without hash
C18_Witness ==
    \E s \in Slots :
       /\ Done(s)
       /\ req[s].outcome = "UPLOADED"
       /\ req[s].password = ""
       /\ req[s].file[1].password = Undefined
       /\ req[s].file[1].downloadCount = 0

\* C19: a /file request with an empty password that found a record with a
\* password hash and a slot left is answered like one without password:
\* NEEDS_PASSWORD with error = false, nothing written
C19_EmptyPasswordPrompt ==
    \A s \in Slots :
       (Done(s) /\ req[s].route \in FileRoutes /\ req[s].file # <<>>
           /\ truthy(req[s].file[1].password)
           /\ req[s].file[1].downloadCount < MAX_DOWNLOADS
           /\ req[s].password = "")
       => (req[s].outcome = "NEEDS_PASSWORD" /\ ~req[s].error
              /\ req[s].writes = 0)
====
